---------------------------- MODULE Spec2Model ----------------------------
(***************************************************************************)
(* A model of the GitLab CI adapter for the assistant CLI:                 *)
(*   - runClaudeGitLab / prepareRunConfig (run-claude-gitlab.ts): the run  *)
(*     orchestrator with its named pipe, three child processes, watchdog   *)
(*     timer, single-resolution wait, cleanup and post-processing;         *)
(*   - main's try/catch (cli.ts) around the run;                           *)
(*   - validateEnvironmentVariablesGitLab (validate-env-gitlab.ts);        *)
(*   - setupClaudeCodeSettings (the settings merger);                      *)
(*   - the 'data' handler of the assistant's standard output               *)
(*     (run-claude-gitlab.ts), which relays it line by line;               *)
(*   - main (cli.ts) from the mapping of the CI variables to the spawn of  *)
(*     the assistant, with parseCustomEnvVars.                             *)
(* Strings the code parses are sequences of one-character strings.         *)
(***************************************************************************)
EXTENDS Integers, Sequences, FiniteSets, TLC

VARIABLES
    \* ---- run orchestrator (runClaudeGitLab, main) ----
    options,        \* ClaudeOptions passed to runClaudeGitLab
    envTimeout,     \* process.env.CLAUDE_TIMEOUT_MINUTES
    termHonoured,   \* whether the assistant exits on SIGTERM
    pc,             \* position of the main control flow
    claudeArgs,     \* config.claudeArgs
    thrown,         \* message of the error thrown out of runClaudeGitLab, <<>> if none
    pipeExists,     \* the named pipe file exists at PIPE_PATH
    pipeCreated,    \* this run executed mkfifo successfully
    spawned,        \* child processes spawned so far
    claudeState,    \* "none" | "running" | "closed"
    killCalls,      \* per child process, the signals passed to kill()
    pipeStream,     \* "none" | "open" | "destroyed"
    errored,        \* child processes whose 'error' event has been emitted
    timeoutMs,
    timeoutId,      \* watchdog timer: "unset" | "armed" | "cleared" | "fired"
    killTimer,      \* 5 s escalation timer: "unset" | "armed" | "fired"
    resolved,       \* the `resolved` flag of the wait
    promise,        \* the awaited promise: [settled, value]
    resolveCalls,   \* number of calls of resolve()
    eventLog,       \* the close / error / timeout events, in the order they occurred
    output,         \* number of data chunks appended to `output`
    unlinkAttempted,\* the cleanup unlink(PIPE_PATH) has run
    resultWritten,  \* EXECUTION_FILE was written by this run
    warnings,       \* number of GitLabOutput.warning calls
    outputs,        \* GitLabOutput.setOutput calls, in order
    processExit,    \* exit status of the orchestrator process, NotExited while alive
    \* ---- environment validator ----
    env,            \* process.env as seen by the validator
    vpc,            \* "start" | "ok" | "threw"
    errors,         \* the validator's errors array
    message,        \* lines of the thrown Error's message
    notes,          \* console.log lines about OIDC
    \* ---- settings merger ----
    settingsFile,   \* content of ~/.claude/settings.json, NoFile if absent
    prevFile,       \* content before the last call
    lastInput,      \* input of the last call
    lastResult,     \* "none" | "ok" | "threw"
    calls,          \* number of calls made
    callLog,        \* the calls made, in order: input and result of each
    \* ---- relay of the assistant's standard output ----
    source,         \* what the assistant writes to its standard output
    pending,        \* the part of it not yet delivered as a 'data' chunk
    relayed,        \* what the data handler has written to process.stdout
    \* ---- main (cli.ts) up to the spawn of the assistant ----
    processEnv,     \* process.env: a function from the names that are set
    mpc,            \* position of main
    spawnEnv        \* the env option of spawn("claude", ...)

runVars == <<options, envTimeout, termHonoured, pc, claudeArgs, thrown, pipeExists,
             pipeCreated, spawned, claudeState, killCalls, pipeStream, errored,
             timeoutMs, timeoutId, killTimer, resolved, promise, resolveCalls,
             eventLog, output, unlinkAttempted, resultWritten, warnings, outputs,
             processExit>>
valVars == <<env, vpc, errors, message, notes>>
setVars == <<settingsFile, prevFile, lastInput, lastResult, calls, callLog>>
relayVars == <<source, pending, relayed>>
cliVars == <<processEnv, mpc, spawnEnv>>
vars == <<runVars, valVars, setVars, relayVars, cliVars>>

-----------------------------------------------------------------------------
(* Bounds *)
MaxExitCode == 2
MaxChunks == 1
MaxText == 4
MaxBlock == 4
MaxOption == 3

-----------------------------------------------------------------------------
(* JavaScript helpers *)

\* undefined and "" are both falsy; every use below only tests truthiness
\* before reading the text, so both are the empty sequence.
Truthy(s) == s # <<>>

DigitVal == ("0" :> 0) @@ ("1" :> 1) @@ ("2" :> 2) @@ ("3" :> 3) @@ ("4" :> 4) @@
            ("5" :> 5) @@ ("6" :> 6) @@ ("7" :> 7) @@ ("8" :> 8) @@ ("9" :> 9)
IsDigit(c) == c \in DOMAIN DigitVal
IsSpace(c) == c \in {" ", "\t", "\n"}

RECURSIVE SkipSpace(_)
SkipSpace(s) == IF s # <<>> /\ IsSpace(Head(s)) THEN SkipSpace(Tail(s)) ELSE s

RECURSIVE DigitsValue(_, _)
DigitsValue(s, acc) ==
    IF s # <<>> /\ IsDigit(Head(s))
    THEN DigitsValue(Tail(s), acc * 10 + DigitVal[Head(s)])
    ELSE acc

NaN == [nan |-> TRUE, val |-> 0]

\* parseInt(s, 10): leading white space, an optional sign, then the longest run
\* of digits; NaN when there is no digit. Anything after the digits is ignored.
parseInt(s) ==
    LET t == SkipSpace(s)
        neg == t # <<>> /\ Head(t) = "-"
        u == IF t # <<>> /\ Head(t) \in {"-", "+"} THEN Tail(t) ELSE t
    IN IF u = <<>> \/ ~IsDigit(Head(u))
       THEN NaN
       ELSE [nan |-> FALSE, val |-> IF neg THEN 0 - DigitsValue(u, 0) ELSE DigitsValue(u, 0)]

isNaN(n) == n.nan

-----------------------------------------------------------------------------
(* prepareRunConfig *)

BASE_ARGS == << <<"-p">>, <<"--verbose">>, <<"--output-format">>, <<"stream-json">> >>

\* if (value) claudeArgs.push(flag, value)
PushIf(args, flag, value) == IF Truthy(value) THEN args \o <<flag, value>> ELSE args

\* `${text}${value}`: an argument or a message is a sequence of string pieces
MaxTurnsError(value) == <<"maxTurns must be a positive number, got: ">> \o value
TimeoutMinutesError(value) == <<"timeoutMinutes must be a positive number, got: ">> \o value
EnvTimeoutError(value) == <<"CLAUDE_TIMEOUT_MINUTES must be a positive number, got: ">> \o value

\* the test both numeric options go through: isNaN(n) || n <= 0
NotPositive(n) == isNaN(n) \/ n.val <= 0

prepareRunConfig(o) ==
    LET a1 == PushIf(BASE_ARGS, <<"--allowedTools">>, o.allowedTools)
        a2 == PushIf(a1, <<"--disallowedTools">>, o.disallowedTools)
        badTurns == Truthy(o.maxTurns) /\ NotPositive(parseInt(o.maxTurns))
        a3 == PushIf(a2, <<"--max-turns">>, o.maxTurns)
        a4 == PushIf(a3, <<"--mcp-config">>, o.mcpConfig)
        a5 == PushIf(a4, <<"--system-prompt">>, o.systemPrompt)
        a6 == PushIf(a5, <<"--append-system-prompt">>, o.appendSystemPrompt)
        a7 == PushIf(a6, <<"--fallback-model">>, o.fallbackModel)
        a8 == PushIf(a7, <<"--model">>, o.model)
        badTimeout == Truthy(o.timeoutMinutes) /\ NotPositive(parseInt(o.timeoutMinutes))
    IN IF badTurns
       THEN [threw |-> TRUE, error |-> MaxTurnsError(o.maxTurns), claudeArgs |-> <<>>]
       ELSE IF badTimeout
       THEN [threw |-> TRUE, error |-> TimeoutMinutesError(o.timeoutMinutes), claudeArgs |-> <<>>]
       ELSE [threw |-> FALSE, error |-> <<>>, claudeArgs |-> a8]

-----------------------------------------------------------------------------
(* runClaudeGitLab: values *)

NotExited == 0 - 1
TimeoutExitCode == 124
ErrorExitCode == 1
CatchExitCode == 1
DefaultTimeoutMs == 10 * 60 * 1000

Children == {"cat", "claude", "pipe"}
ExitCodes == 0 .. MaxExitCode

\* What a 'close' event carries: (code, signal). code is null when the child was
\* ended by a signal.
ClosePayloads ==
    {[isNull |-> FALSE, code |-> c, signal |-> "none"] : c \in ExitCodes}
    \cup {[isNull |-> TRUE, code |-> 0, signal |-> s] : s \in {"SIGTERM", "SIGKILL"}}

\* code || 0
OrZero(p) == IF p.isNull \/ p.code = 0 THEN 0 ELSE p.code

\* The main flow is suspended at an await, the process is alive, and no
\* continuation of the awaited promise is pending (a continuation runs before
\* any further timer or I/O callback).
AwaitPoints == {"await", "unlink", "write_output", "jq", "write_result"}
EventLoopFree ==
    /\ processExit = NotExited
    /\ pc \in AwaitPoints
    /\ ~(pc = "await" /\ promise.settled)

\* resolve(v) of the awaited promise: only the first call settles it
Resolve(v) ==
    /\ promise' = IF promise.settled THEN promise ELSE [settled |-> TRUE, value |-> v]
    /\ resolveCalls' = resolveCalls + 1

\* child.kill(sig)
Kill(kc, child, sig) == [kc EXCEPT ![child] = Append(@, sig)]

\* GitLabOutput.setOutput(name, value)
SetOutput(outs, name, value) == Append(outs, <<name, value>>)

-----------------------------------------------------------------------------
(* runClaudeGitLab: the main flow up to the wait *)

RunRest == <<claudeState, killCalls, pipeStream, errored, timeoutMs, timeoutId,
             killTimer, resolved, promise, resolveCalls, eventLog, output,
             unlinkAttempted, resultWritten, warnings, outputs, processExit>>

\* const config = prepareRunConfig(promptPath, options)
PrepareRunConfig ==
    /\ pc = "start"
    /\ LET config == prepareRunConfig(options)
       IN IF config.threw
          THEN /\ pc' = "caught"
               /\ thrown' = config.error
               /\ UNCHANGED claudeArgs
          ELSE /\ pc' = "mkfifo"
               /\ claudeArgs' = config.claudeArgs
               /\ UNCHANGED thrown
    /\ UNCHANGED <<options, envTimeout, termHonoured, pipeExists, pipeCreated, spawned>>
    /\ UNCHANGED RunRest
    /\ UNCHANGED <<valVars, setVars, relayVars, cliVars>>

\* mkdirSync; unlink of a stale pipe (errors ignored); await execAsync(mkfifo).
\* mkfifo fails when the stale pipe is still there, and may fail otherwise; its
\* failure rejects the await and the error leaves runClaudeGitLab.
CreatePipe ==
    /\ pc = "mkfifo"
    /\ \E unlinked \in BOOLEAN, ok \in BOOLEAN :
          LET stale == pipeExists /\ ~unlinked
          IN IF ok /\ ~stale
             THEN /\ pipeExists' = TRUE
                  /\ pipeCreated' = TRUE
                  /\ pc' = "spawn"
                  /\ UNCHANGED thrown
             ELSE /\ pipeExists' = stale
                  /\ pc' = "caught"
                  /\ thrown' = <<"Command failed: mkfifo">>
                  /\ UNCHANGED pipeCreated
    /\ UNCHANGED <<options, envTimeout, termHonoured, claudeArgs, spawned>>
    /\ UNCHANGED RunRest
    /\ UNCHANGED <<valVars, setVars, relayVars, cliVars>>

\* Lines 154-261 run without an await after stat: the three spawns, the handler
\* registrations, the timeout computation and the executor of the promise, which
\* arms the watchdog. An invalid CLAUDE_TIMEOUT_MINUTES throws after the spawns.
SpawnAndArm ==
    /\ pc = "spawn"
    /\ spawned' = Children
    /\ claudeState' = "running"
    /\ pipeStream' = "open"
    /\ LET envNum == parseInt(envTimeout)
       IN IF Truthy(options.timeoutMinutes)
          THEN /\ timeoutMs' = parseInt(options.timeoutMinutes).val * 60 * 1000
               /\ timeoutId' = "armed"
               /\ pc' = "await"
               /\ UNCHANGED thrown
          ELSE IF Truthy(envTimeout)
          THEN IF NotPositive(envNum)
               THEN /\ thrown' = EnvTimeoutError(envTimeout)
                    /\ pc' = "caught"
                    /\ UNCHANGED <<timeoutMs, timeoutId>>
               ELSE /\ timeoutMs' = envNum.val * 60 * 1000
                    /\ timeoutId' = "armed"
                    /\ pc' = "await"
                    /\ UNCHANGED thrown
          ELSE /\ timeoutMs' = DefaultTimeoutMs
               /\ timeoutId' = "armed"
               /\ pc' = "await"
               /\ UNCHANGED thrown
    /\ UNCHANGED <<options, envTimeout, termHonoured, claudeArgs, pipeExists, pipeCreated>>
    /\ UNCHANGED <<killCalls, errored, killTimer, resolved, promise, resolveCalls,
                   eventLog, output, unlinkAttempted, resultWritten, warnings,
                   outputs, processExit>>
    /\ UNCHANGED <<valVars, setVars, relayVars, cliVars>>

-----------------------------------------------------------------------------
(* runClaudeGitLab: the handlers of the wait *)

\* the watchdog callback
OnTimeoutKillOnly ==
    /\ killCalls' = Kill(killCalls, "claude", "SIGTERM")
    /\ killTimer' = "armed"
    /\ UNCHANGED <<resolved, promise, resolveCalls>>

OnTimeout ==
    IF ~resolved
    THEN /\ killCalls' = Kill(killCalls, "claude", "SIGTERM")
         /\ killTimer' = "armed"
         /\ resolved' = TRUE
         /\ Resolve(TimeoutExitCode)
    ELSE UNCHANGED <<killCalls, killTimer, resolved, promise, resolveCalls>>

\* claudeProcess.on("close", (code) => ...)
OnCloseUnguarded(p) ==
    /\ timeoutId' = IF timeoutId = "armed" THEN "cleared" ELSE timeoutId
    /\ resolved' = TRUE
    /\ Resolve(OrZero(p))

OnClose(p) ==
    IF ~resolved
    THEN /\ timeoutId' = IF timeoutId = "armed" THEN "cleared" ELSE timeoutId
         /\ resolved' = TRUE
         /\ Resolve(OrZero(p))
    ELSE UNCHANGED <<timeoutId, resolved, promise, resolveCalls>>

\* the second claudeProcess.on("error", ...) (the first destroys pipeStream)
OnError ==
    IF ~resolved
    THEN /\ timeoutId' = IF timeoutId = "armed" THEN "cleared" ELSE timeoutId
         /\ resolved' = TRUE
         /\ Resolve(ErrorExitCode)
    ELSE UNCHANGED <<timeoutId, resolved, promise, resolveCalls>>

Inputs == <<options, envTimeout, termHonoured, claudeArgs, thrown, pipeExists,
            pipeCreated, spawned, timeoutMs>>
PostVars == <<unlinkAttempted, resultWritten, warnings, outputs, processExit>>

\* The watchdog timer expires.
WatchdogFires ==
    /\ EventLoopFree
    /\ timeoutId = "armed"
    /\ timeoutId' = "fired"
    /\ OnTimeout
    /\ eventLog' = Append(eventLog, [kind |-> "timeout", code |-> 0, isNull |-> FALSE])
    /\ UNCHANGED <<pc, claudeState, pipeStream, errored, output>>
    /\ UNCHANGED <<Inputs, PostVars, valVars, setVars, relayVars, cliVars>>

\* The 5 s timer armed by the watchdog expires: kill("SIGKILL") inside try.
KillTimerFires ==
    /\ EventLoopFree
    /\ killTimer = "armed"
    /\ killTimer' = "fired"
    /\ killCalls' = Kill(killCalls, "claude", "SIGKILL")
    /\ UNCHANGED <<pc, claudeState, pipeStream, errored, timeoutId, resolved, promise,
                   resolveCalls, eventLog, output>>
    /\ UNCHANGED <<Inputs, PostVars, valVars, setVars, relayVars, cliVars>>

\* The signals that end the assistant: SIGKILL always, SIGTERM when honoured.
\* kill() on a child that has closed delivers nothing.
Deliverable(sig) ==
    /\ \E i \in 1 .. Len(killCalls["claude"]) : killCalls["claude"][i] = sig
    /\ sig = "SIGTERM" => termHonoured

\* The assistant ends (by itself with an exit code, or by a delivered signal)
\* and its 'close' event is emitted.
ClaudeClose ==
    /\ EventLoopFree
    /\ claudeState = "running"
    /\ \E p \in ClosePayloads :
          /\ p.isNull => Deliverable(p.signal)
          /\ OnClose(p)
          /\ eventLog' = Append(eventLog, [kind |-> "close", code |-> p.code, isNull |-> p.isNull])
    /\ claudeState' = "closed"
    /\ UNCHANGED <<pc, killCalls, pipeStream, errored, killTimer, output>>
    /\ UNCHANGED <<Inputs, PostVars, valVars, setVars, relayVars, cliVars>>

\* The assistant's 'error' event (it could not be spawned, or a kill failed):
\* both registered handlers run, in registration order.
ClaudeError ==
    /\ EventLoopFree
    /\ claudeState = "running"
    /\ "claude" \notin errored
    /\ errored' = errored \cup {"claude"}
    /\ pipeStream' = "destroyed"
    /\ OnError
    /\ eventLog' = Append(eventLog, [kind |-> "error", code |-> 0, isNull |-> FALSE])
    /\ UNCHANGED <<pc, claudeState, killCalls, killTimer, output>>
    /\ UNCHANGED <<Inputs, PostVars, valVars, setVars, relayVars, cliVars>>

\* claudeProcess.stdout 'data': output += text
ClaudeData ==
    /\ EventLoopFree
    /\ claudeState = "running"
    /\ output < MaxChunks
    /\ output' = output + 1
    /\ UNCHANGED <<pc, claudeState, killCalls, pipeStream, errored, timeoutId, killTimer,
                   resolved, promise, resolveCalls, eventLog>>
    /\ UNCHANGED <<Inputs, PostVars, valVars, setVars, relayVars, cliVars>>

\* pipeProcess 'error': claudeProcess.kill("SIGTERM")
PipeProcessError ==
    /\ EventLoopFree
    /\ "pipe" \notin errored
    /\ errored' = errored \cup {"pipe"}
    /\ killCalls' = Kill(killCalls, "claude", "SIGTERM")
    /\ UNCHANGED <<pc, claudeState, pipeStream, timeoutId, killTimer, resolved, promise,
                   resolveCalls, eventLog, output>>
    /\ UNCHANGED <<Inputs, PostVars, valVars, setVars, relayVars, cliVars>>

\* catProcess 'error': pipeStream.destroy()
CatProcessError ==
    /\ EventLoopFree
    /\ "cat" \notin errored
    /\ errored' = errored \cup {"cat"}
    /\ pipeStream' = "destroyed"
    /\ UNCHANGED <<pc, claudeState, killCalls, timeoutId, killTimer, resolved, promise,
                   resolveCalls, eventLog, output>>
    /\ UNCHANGED <<Inputs, PostVars, valVars, setVars, relayVars, cliVars>>

-----------------------------------------------------------------------------
(* runClaudeGitLab: after the wait *)

exitCode == promise.value

\* process.exit(code)
ProcessExit(code) ==
    /\ pc' = "exited"
    /\ processExit' = code

Handlers == <<claudeState, pipeStream, errored, timeoutId, killTimer, resolved,
              promise, resolveCalls, eventLog, output>>

\* The await returns: catProcess.kill, pipeProcess.kill, then unlink is started.
CleanupProcesses ==
    /\ pc = "await"
    /\ processExit = NotExited
    /\ promise.settled
    /\ killCalls' = Kill(Kill(killCalls, "cat", "SIGTERM"), "pipe", "SIGTERM")
    /\ pc' = "unlink"
    /\ UNCHANGED <<Handlers, Inputs, PostVars, valVars, setVars, relayVars, cliVars>>

\* await unlink(PIPE_PATH) ends (an error is ignored); then the code up to the
\* next await: the failure conclusion, and process.exit when nothing was captured.
CleanupPipe ==
    /\ pc = "unlink"
    /\ processExit = NotExited
    /\ unlinkAttempted' = TRUE
    /\ \E ok \in BOOLEAN : pipeExists' = IF ok THEN FALSE ELSE pipeExists
    /\ IF exitCode = 0
       THEN /\ pc' = "write_output"
            /\ UNCHANGED <<outputs, processExit>>
       ELSE /\ outputs' = SetOutput(outputs, "conclusion", "failure")
            /\ IF output > 0
               THEN /\ pc' = "write_output"
                    /\ UNCHANGED processExit
               ELSE ProcessExit(exitCode)
    /\ UNCHANGED <<options, envTimeout, termHonoured, claudeArgs, thrown, pipeCreated,
                   spawned, timeoutMs, killCalls, resultWritten, warnings>>
    /\ UNCHANGED <<Handlers, valVars, setVars, relayVars, cliVars>>

\* The end of post-processing: `done` when all three steps succeeded, otherwise
\* the catch block of the branch.
FinishPostRethrows(done) ==
    IF done
    THEN IF exitCode = 0
         THEN /\ outputs' = SetOutput(SetOutput(outputs, "conclusion", "success"),
                                      "execution_file", "EXECUTION_FILE")
              /\ pc' = "returned"
              /\ UNCHANGED <<warnings, processExit>>
         ELSE /\ outputs' = SetOutput(outputs, "execution_file", "EXECUTION_FILE")
              /\ ProcessExit(exitCode)
              /\ UNCHANGED warnings
    ELSE /\ ProcessExit(CatchExitCode)
         /\ UNCHANGED <<warnings, outputs>>

FinishPost(done) ==
    IF exitCode = 0
    THEN /\ warnings' = IF done THEN warnings ELSE warnings + 1
         /\ outputs' = SetOutput(SetOutput(outputs, "conclusion", "success"),
                                 "execution_file", "EXECUTION_FILE")
         /\ pc' = "returned"
         /\ UNCHANGED processExit
    ELSE /\ outputs' = IF done THEN SetOutput(outputs, "execution_file", "EXECUTION_FILE")
                       ELSE outputs
         /\ ProcessExit(exitCode)
         /\ UNCHANGED warnings

PostRest == <<options, envTimeout, termHonoured, claudeArgs, thrown, pipeExists,
              pipeCreated, spawned, timeoutMs, killCalls, unlinkAttempted>>

\* await writeFile("output.txt", output)
WriteOutputTxt ==
    /\ pc = "write_output"
    /\ processExit = NotExited
    /\ \E ok \in BOOLEAN :
          IF ok
          THEN pc' = "jq" /\ UNCHANGED <<warnings, outputs, processExit>>
          ELSE FinishPost(FALSE)
    /\ UNCHANGED <<resultWritten, PostRest, Handlers, valVars, setVars, relayVars, cliVars>>

\* await execAsync("jq -s '.' output.txt")
RunJq ==
    /\ pc = "jq"
    /\ processExit = NotExited
    /\ \E ok \in BOOLEAN :
          IF ok
          THEN pc' = "write_result" /\ UNCHANGED <<warnings, outputs, processExit>>
          ELSE FinishPost(FALSE)
    /\ UNCHANGED <<resultWritten, PostRest, Handlers, valVars, setVars, relayVars, cliVars>>

\* await writeFile(EXECUTION_FILE, jsonOutput)
WriteExecutionFile ==
    /\ pc = "write_result"
    /\ processExit = NotExited
    /\ \E ok \in BOOLEAN :
          /\ resultWritten' = ok
          /\ FinishPost(ok)
    /\ UNCHANGED <<PostRest, Handlers, valVars, setVars, relayVars, cliVars>>

\* runClaudeGitLab returned: main logs completion and the process ends with
\* status 0 once nothing is left to run.
MainReturns ==
    /\ pc = "returned"
    /\ ProcessExit(0)
    /\ UNCHANGED <<PostRest, Handlers, resultWritten, warnings, outputs, valVars, setVars, relayVars, cliVars>>

\* main's catch: GitLabOutput.setFailed logs and calls process.exit(1); the
\* setOutput after it is never reached.
MainCatch ==
    /\ pc = "caught"
    /\ ProcessExit(CatchExitCode)
    /\ UNCHANGED <<PostRest, Handlers, resultWritten, warnings, outputs, valVars, setVars, relayVars, cliVars>>

-----------------------------------------------------------------------------
(* The orchestrator's specification *)

OptValues == {<<>>, <<"3">>, <<"0">>, <<"-", "3">>, <<"a", "b", "c">>}

NoOptions == [allowedTools |-> <<>>, disallowedTools |-> <<>>, maxTurns |-> <<>>,
              mcpConfig |-> <<>>, systemPrompt |-> <<>>, appendSystemPrompt |-> <<>>,
              claudeEnv |-> <<>>, fallbackModel |-> <<>>, timeoutMinutes |-> <<>>,
              model |-> <<>>]

Undefined == "<undefined>"
NoFile == [present |-> FALSE, doc |-> <<>>]
NoInput == [given |-> FALSE, lead |-> <<>>, body |-> "none", exists |-> FALSE,
            parses |-> FALSE, doc |-> <<>>]

ValIdle ==
    /\ env = <<>>
    /\ vpc = "idle"
    /\ errors = <<>>
    /\ message = <<>>
    /\ notes = <<>>

SetIdle ==
    /\ settingsFile = NoFile
    /\ prevFile = NoFile
    /\ lastInput = NoInput
    /\ lastResult = "idle"
    /\ calls = 0
    /\ callLog = <<>>

RelayIdle ==
    /\ source = <<>>
    /\ pending = <<>>
    /\ relayed = <<>>

CliIdle ==
    /\ processEnv = <<>>
    /\ mpc = "idle"
    /\ spawnEnv = <<>>

RunInit ==
    /\ \E mt \in OptValues, tm \in OptValues :
          options = [NoOptions EXCEPT !.maxTurns = mt, !.timeoutMinutes = tm]
    /\ envTimeout \in OptValues
    /\ termHonoured \in BOOLEAN
    /\ pc = "start"
    /\ claudeArgs = <<>>
    /\ thrown = <<>>
    /\ pipeExists \in BOOLEAN
    /\ pipeCreated = FALSE
    /\ spawned = {}
    /\ claudeState = "none"
    /\ killCalls = [c \in Children |-> <<>>]
    /\ pipeStream = "none"
    /\ errored = {}
    /\ timeoutMs = 0
    /\ timeoutId = "unset"
    /\ killTimer = "unset"
    /\ resolved = FALSE
    /\ promise = [settled |-> FALSE, value |-> 0]
    /\ resolveCalls = 0
    /\ eventLog = <<>>
    /\ output = 0
    /\ unlinkAttempted = FALSE
    /\ resultWritten = FALSE
    /\ warnings = 0
    /\ outputs = <<>>
    /\ processExit = NotExited

Init == RunInit /\ ValIdle /\ SetIdle /\ RelayIdle /\ CliIdle

Next ==
    \/ PrepareRunConfig
    \/ CreatePipe
    \/ SpawnAndArm
    \/ WatchdogFires
    \/ KillTimerFires
    \/ ClaudeClose
    \/ ClaudeError
    \/ ClaudeData
    \/ PipeProcessError
    \/ CatProcessError
    \/ CleanupProcesses
    \/ CleanupPipe
    \/ WriteOutputTxt
    \/ RunJq
    \/ WriteExecutionFile
    \/ MainReturns
    \/ MainCatch

Spec == Init /\ [][Next]_vars

-----------------------------------------------------------------------------
(* Claims about the orchestrator *)

HasKill(child, sig) ==
    \E i \in 1 .. Len(killCalls[child]) : killCalls[child][i] = sig

Emitted(name, value) ==
    \E i \in 1 .. Len(outputs) : outputs[i] = <<name, value>>

\* the exit code the first event of the wait stands for
CodeOfEvent(e) ==
    CASE e.kind = "timeout" -> 124
      [] e.kind = "error" -> 1
      [] e.kind = "close" -> IF e.isNull THEN 0 ELSE e.code

\* C1: whatever the order of the assistant's 'close', its 'error' and the
\* watchdog's expiry, resolve() is called exactly once, by the first of them, and
\* the run's exit code is the one that first event stands for; later events
\* neither resolve again nor change it.
C1_ResolvedOnceByFirstEvent ==
    /\ resolveCalls <= 1
    /\ eventLog = <<>> => (~promise.settled /\ ~resolved /\ resolveCalls = 0)
    /\ eventLog # <<>> =>
          /\ promise.settled /\ resolved /\ resolveCalls = 1
          /\ promise.value = CodeOfEvent(eventLog[1])

\* all three events occurred in one run
C1_Witness ==
    /\ Len(eventLog) = 3
    /\ pc = "exited"

TimedOutFirst == eventLog # <<>> /\ eventLog[1].kind = "timeout"

\* C2: when the watchdog expires before the assistant closed or errored, the
\* exit code is 124 whatever the assistant reports afterwards, the only
\* conclusion emitted is 'failure', and the orchestrator exits with 124.
C2_TimeoutGives124 ==
    TimedOutFirst =>
        /\ promise.value = 124
        /\ ~Emitted("conclusion", "success")
        /\ pc \in {"write_output", "jq", "write_result", "exited"} => Emitted("conclusion", "failure")
        /\ pc = "exited" => processExit = 124
        /\ pc # "returned"

\* a run that timed out, then saw the assistant close with code 0, and ended
C2_Witness ==
    /\ TimedOutFirst
    /\ \E i \in 2 .. Len(eventLog) :
          eventLog[i].kind = "close" /\ ~eventLog[i].isNull /\ eventLog[i].code = 0
    /\ pc = "exited"

\* C3: after the watchdog expires the assistant is sent SIGTERM first, and an
\* assistant that ignores it and is still running is sent SIGKILL before the run
\* is over.
C3_SigkillFollowsSigterm ==
    /\ timeoutId = "fired" => HasKill("claude", "SIGTERM")
    /\ HasKill("claude", "SIGKILL") => killCalls["claude"][1] = "SIGTERM"
    /\ (pc = "exited" /\ timeoutId = "fired" /\ claudeState = "running" /\ ~termHonoured)
          => HasKill("claude", "SIGKILL")

\* a positive decimal number: digits only, not all zero
RECURSIVE AllDigits(_)
AllDigits(s) == s = <<>> \/ (IsDigit(Head(s)) /\ AllDigits(Tail(s)))
PositiveNumber(s) == s # <<>> /\ AllDigits(s) /\ DigitsValue(s, 0) > 0
InvalidLimit(s) == Truthy(s) /\ ~PositiveNumber(s)

Includes(msg, v) ==
    \E i \in 1 .. Len(msg) : i + Len(v) - 1 <= Len(msg) /\ SubSeq(msg, i, i + Len(v) - 1) = v

\* the limits in effect: the environment-level timeout counts when the run has
\* none of its own
InvalidLimits ==
    {v \in {options.maxTurns, options.timeoutMinutes} : InvalidLimit(v)}
    \cup (IF ~Truthy(options.timeoutMinutes) /\ InvalidLimit(envTimeout) THEN {envTimeout} ELSE {})

\* C4: an invalid turn limit or timeout (maxTurns, timeoutMinutes, or the
\* CLAUDE_TIMEOUT_MINUTES in effect) makes the run fail with an error that
\* includes the value, before the pipe is created and before any child is spawned.
C4_InvalidLimitFailsBeforeSpawn ==
    InvalidLimits # {} =>
        /\ ~pipeCreated
        /\ spawned = {}
        /\ pc \in {"caught", "exited"} => \E v \in InvalidLimits : Includes(thrown, v)
        /\ pc = "exited" => processExit # 0

CleanExitFirst ==
    /\ eventLog # <<>>
    /\ eventLog[1].kind = "close" /\ ~eventLog[1].isNull /\ eventLog[1].code = 0

\* C5: 'success' is emitted only when the assistant exited normally with code 0;
\* a run whose wait ended any other way (spawn failure, a signal, a non-zero
\* code, the timeout) emits 'failure' and ends with a non-zero status, the
\* assistant's own code when it has one.
C5_SuccessOnlyOnCleanExit ==
    /\ Emitted("conclusion", "success") => CleanExitFirst
    /\ (pc = "exited" /\ eventLog # <<>> /\ ~CleanExitFirst) =>
          /\ Emitted("conclusion", "failure")
          /\ processExit # 0
          /\ (eventLog[1].kind = "close" /\ ~eventLog[1].isNull) => processExit = eventLog[1].code

\* C6: a run that created the named pipe has, when it ends, signalled both
\* auxiliary processes, attempted the removal of the pipe and emitted a
\* conclusion, whether or not a cleanup step failed.
C6_CleanupBeforeEnd ==
    (pc = "exited" /\ pipeCreated) =>
        /\ HasKill("cat", "SIGTERM")
        /\ HasKill("pipe", "SIGTERM")
        /\ unlinkAttempted
        /\ Emitted("conclusion", "success") \/ Emitted("conclusion", "failure")

\* the run is over and its post-processing was started and did not produce the
\* result file
PostFailed ==
    /\ unlinkAttempted
    /\ pc \in {"returned", "exited"}
    /\ exitCode = 0 \/ output > 0
    /\ ~resultWritten

\* C13: a failure of post-processing never changes the outcome of the run: after
\* exit code 0 the conclusion success is still emitted and the run returns
\* normally; after a failed run the orchestrator still exits with the run's
\* exit code.
C13_PostFailureKeepsOutcome ==
    PostFailed =>
        IF exitCode = 0
        THEN /\ Emitted("conclusion", "success")
             /\ ~Emitted("conclusion", "failure")
             /\ pc = "exited" => processExit = 0
        ELSE /\ pc = "exited"
             /\ processExit = exitCode

\* post-processing failed after a clean exit, and the run has returned to main
C13_Witness ==
    /\ PostFailed
    /\ exitCode = 0
    /\ warnings = 1
    /\ pc = "returned"

Conclusions == {i \in 1 .. Len(outputs) : outputs[i][1] = "conclusion"}

\* C16: every execution that terminates has emitted the conclusion exactly once
\* before the process exits: success when the run completed with exit code 0,
\* failure in every other case, an error caught by main included.
C16_ConclusionExactlyOnce ==
    pc = "exited" =>
        /\ Cardinality(Conclusions) = 1
        /\ processExit = 0 => Emitted("conclusion", "success")
        /\ processExit # 0 => Emitted("conclusion", "failure")

\* C17: execution_file is emitted only after the result file was written in
\* the same run.
C17_ExecutionFileOnlyIfWritten ==
    Emitted("execution_file", "EXECUTION_FILE") => resultWritten

-----------------------------------------------------------------------------
(* validateEnvironmentVariablesGitLab *)

\* !value: undefined and "" are falsy
EnvTruthy(v) == v # Undefined /\ v # ""

useBedrock(e) == e["CLAUDE_CODE_USE_BEDROCK"] = "1" \/ e["CLAUDE_USE_BEDROCK"] = "true"
useVertex(e) == e["CLAUDE_CODE_USE_VERTEX"] = "1" \/ e["CLAUDE_USE_VERTEX"] = "true"

ConflictError ==
    <<"Cannot use both Bedrock and Vertex AI simultaneously. Please set only one provider (CLAUDE_USE_BEDROCK or CLAUDE_USE_VERTEX).">>
DirectError ==
    <<"Either ANTHROPIC_API_KEY or CLAUDE_CODE_OAUTH_TOKEN is required when using direct Anthropic API.">>
BedrockError(key) == <<key, " is required when using AWS Bedrock (CLAUDE_USE_BEDROCK=true).">>
VertexError(key) == <<key, " is required when using Google Vertex AI (CLAUDE_USE_VERTEX=true).">>
ProjectDirError == <<"CI_PROJECT_DIR is required in GitLab CI environment.">>

\* the keys of requiredBedrockVars / requiredVertexVars, in Object.entries order
requiredBedrockVars == <<"AWS_REGION", "AWS_ACCESS_KEY_ID", "AWS_SECRET_ACCESS_KEY">>
requiredVertexVars == <<"ANTHROPIC_VERTEX_PROJECT_ID", "CLOUD_ML_REGION">>

\* if (useBedrock && useVertex) errors.push(...)
ConflictErrors(e) == IF useBedrock(e) /\ useVertex(e) THEN <<ConflictError>> ELSE <<>>

\* the direct-API branch
DirectErrorsKeyOnly(e) ==
    IF ~EnvTruthy(e["ANTHROPIC_API_KEY"]) THEN <<DirectError>> ELSE <<>>

DirectErrors(e) ==
    IF ~EnvTruthy(e["ANTHROPIC_API_KEY"]) /\ ~EnvTruthy(e["CLAUDE_CODE_OAUTH_TOKEN"])
    THEN <<DirectError>>
    ELSE <<>>

\* Object.entries(required).forEach(([key, value]) => { if (!value) errors.push(...) })
RECURSIVE BedrockMissing(_, _)
BedrockMissing(e, keys) ==
    IF keys = <<>> THEN <<>>
    ELSE (IF ~EnvTruthy(e[Head(keys)]) THEN <<BedrockError(Head(keys))>> ELSE <<>>)
         \o BedrockMissing(e, Tail(keys))

RECURSIVE VertexMissing(_, _)
VertexMissing(e, keys) ==
    IF keys = <<>> THEN <<>>
    ELSE (IF ~EnvTruthy(e[Head(keys)]) THEN <<VertexError(Head(keys))>> ELSE <<>>)
         \o VertexMissing(e, Tail(keys))

\* a loop that stops at the first missing variable
BedrockErrorsFirstOnly(e) ==
    LET all == BedrockMissing(e, requiredBedrockVars)
    IN IF all = <<>> THEN <<>> ELSE <<Head(all)>>

BedrockErrors(e) == BedrockMissing(e, requiredBedrockVars)
VertexErrors(e) == VertexMissing(e, requiredVertexVars)

\* const oidcToken = process.env.CI_JOB_JWT_V2 || process.env.CI_JOB_JWT
oidcToken(e) == IF EnvTruthy(e["CI_JOB_JWT_V2"]) THEN e["CI_JOB_JWT_V2"] ELSE e["CI_JOB_JWT"]

BedrockNotes(e) ==
    IF ~EnvTruthy(e["AWS_ACCESS_KEY_ID"]) /\ EnvTruthy(oidcToken(e))
    THEN <<"Using GitLab OIDC token for AWS authentication">>
    ELSE <<>>
VertexNotes(e) ==
    IF ~EnvTruthy(e["GOOGLE_APPLICATION_CREDENTIALS"]) /\ EnvTruthy(oidcToken(e))
    THEN <<"Using GitLab OIDC token for GCP authentication">>
    ELSE <<>>

\* if (process.env.GITLAB_CI_MODE) { if (!process.env.CI_PROJECT_DIR) errors.push(...) }
GitLabErrors(e) ==
    IF EnvTruthy(e["GITLAB_CI_MODE"]) /\ ~EnvTruthy(e["CI_PROJECT_DIR"])
    THEN <<ProjectDirError>>
    ELSE <<>>
\* (the three lines logged after it print variables that decide nothing)
GitLabNotes(e) ==
    IF EnvTruthy(e["GITLAB_CI_MODE"]) THEN <<"Running in GitLab CI mode">> ELSE <<>>

\* the if / else if / else if chain on the provider
ProviderErrors(e) ==
    IF ~useBedrock(e) /\ ~useVertex(e) THEN DirectErrors(e)
    ELSE IF useBedrock(e) THEN BedrockErrors(e)
    ELSE IF useVertex(e) THEN VertexErrors(e)
    ELSE <<>>

ProviderNotes(e) ==
    IF ~useBedrock(e) /\ ~useVertex(e) THEN <<>>
    ELSE IF useBedrock(e) THEN BedrockNotes(e)
    ELSE IF useVertex(e) THEN VertexNotes(e)
    ELSE <<>>

\* errors.map((e) => `  - ${e}`).join("\n")
RECURSIVE JoinErrors(_)
JoinErrors(errs) ==
    IF errs = <<>> THEN <<>>
    ELSE IF Len(errs) = 1 THEN <<"  - ">> \o Head(errs)
    ELSE <<"  - ">> \o Head(errs) \o <<"\n">> \o JoinErrors(Tail(errs))

ValidationHeader == "GitLab CI environment variable validation failed:"
ErrorMessage(errs) == <<ValidationHeader, "\n">> \o JoinErrors(errs)

validateEnvironmentVariablesGitLab(e) ==
    LET errs == ConflictErrors(e) \o ProviderErrors(e) \o GitLabErrors(e)
    IN [errors |-> errs,
        notes |-> ProviderNotes(e) \o GitLabNotes(e),
        threw |-> Len(errs) > 0,
        message |-> IF Len(errs) > 0 THEN ErrorMessage(errs) ELSE <<>>]

Validate ==
    /\ vpc = "start"
    /\ LET r == validateEnvironmentVariablesGitLab(env)
       IN /\ errors' = r.errors
          /\ notes' = r.notes
          /\ message' = r.message
          /\ vpc' = IF r.threw THEN "threw" ELSE "ok"
    /\ UNCHANGED <<env, runVars, setVars, relayVars, cliVars>>

\* the values each variable is tried with
EnvValues(name) ==
    CASE name \in {"CLAUDE_CODE_USE_BEDROCK", "CLAUDE_CODE_USE_VERTEX"} -> {Undefined, "1"}
      [] name \in {"CLAUDE_USE_BEDROCK", "CLAUDE_USE_VERTEX"} -> {Undefined, "true", "false"}
      [] name = "ANTHROPIC_API_KEY" -> {Undefined, "", "set"}
      [] OTHER -> {Undefined, "set"}

RunIdle ==
    /\ options = NoOptions
    /\ envTimeout = <<>>
    /\ termHonoured = FALSE
    /\ pc = "idle"
    /\ claudeArgs = <<>>
    /\ thrown = <<>>
    /\ pipeExists = FALSE
    /\ pipeCreated = FALSE
    /\ spawned = {}
    /\ claudeState = "none"
    /\ killCalls = [c \in Children |-> <<>>]
    /\ pipeStream = "none"
    /\ errored = {}
    /\ timeoutMs = 0
    /\ timeoutId = "unset"
    /\ killTimer = "unset"
    /\ resolved = FALSE
    /\ promise = [settled |-> FALSE, value |-> 0]
    /\ resolveCalls = 0
    /\ eventLog = <<>>
    /\ output = 0
    /\ unlinkAttempted = FALSE
    /\ resultWritten = FALSE
    /\ warnings = 0
    /\ outputs = <<>>
    /\ processExit = NotExited

ValInit ==
    /\ \E v1 \in EnvValues("CLAUDE_CODE_USE_BEDROCK"),
          v2 \in EnvValues("CLAUDE_USE_BEDROCK"),
          v3 \in EnvValues("CLAUDE_CODE_USE_VERTEX"),
          v4 \in EnvValues("CLAUDE_USE_VERTEX"),
          v5 \in EnvValues("ANTHROPIC_API_KEY"),
          v6 \in EnvValues("CLAUDE_CODE_OAUTH_TOKEN"),
          v7 \in EnvValues("AWS_REGION"),
          v8 \in EnvValues("AWS_ACCESS_KEY_ID"),
          v9 \in EnvValues("AWS_SECRET_ACCESS_KEY"),
          v10 \in EnvValues("CI_JOB_JWT_V2"),
          v11 \in EnvValues("CI_JOB_JWT"),
          v12 \in EnvValues("ANTHROPIC_VERTEX_PROJECT_ID"),
          v13 \in EnvValues("CLOUD_ML_REGION"),
          v14 \in EnvValues("GOOGLE_APPLICATION_CREDENTIALS"),
          v15 \in EnvValues("GITLAB_CI_MODE"),
          v16 \in EnvValues("CI_PROJECT_DIR") :
          env = [CLAUDE_CODE_USE_BEDROCK |-> v1,
                 CLAUDE_USE_BEDROCK |-> v2,
                 CLAUDE_CODE_USE_VERTEX |-> v3,
                 CLAUDE_USE_VERTEX |-> v4,
                 ANTHROPIC_API_KEY |-> v5,
                 CLAUDE_CODE_OAUTH_TOKEN |-> v6,
                 AWS_REGION |-> v7,
                 AWS_ACCESS_KEY_ID |-> v8,
                 AWS_SECRET_ACCESS_KEY |-> v9,
                 CI_JOB_JWT_V2 |-> v10,
                 CI_JOB_JWT |-> v11,
                 ANTHROPIC_VERTEX_PROJECT_ID |-> v12,
                 CLOUD_ML_REGION |-> v13,
                 GOOGLE_APPLICATION_CREDENTIALS |-> v14,
                 GITLAB_CI_MODE |-> v15,
                 CI_PROJECT_DIR |-> v16]
    /\ vpc = "start"
    /\ errors = <<>>
    /\ message = <<>>
    /\ notes = <<>>

InitValidate == RunIdle /\ ValInit /\ SetIdle /\ RelayIdle /\ CliIdle
NextValidate == Validate
SpecValidate == InitValidate /\ [][NextValidate]_vars

-----------------------------------------------------------------------------
(* Claims about the validator *)

Validated == vpc \in {"ok", "threw"}
Present(name) == EnvTruthy(env[name])
TokenPresent == Present("CI_JOB_JWT_V2") \/ Present("CI_JOB_JWT")
Reported(err) == \E i \in 1 .. Len(errors) : errors[i] = err
Noted(line) == \E i \in 1 .. Len(notes) : notes[i] = line

\* C7: with one managed provider selected, its static credentials absent and a
\* CI_JOB_JWT_V2 or CI_JOB_JWT present, no error is reported for the absent
\* static credentials; the validator only logs that the token is available.
C7_TokenInsteadOfStaticCredentials ==
    Validated =>
        /\ (useBedrock(env) /\ ~useVertex(env) /\ TokenPresent
              /\ ~Present("AWS_ACCESS_KEY_ID") /\ ~Present("AWS_SECRET_ACCESS_KEY")) =>
                 /\ ~Reported(BedrockError("AWS_ACCESS_KEY_ID"))
                 /\ ~Reported(BedrockError("AWS_SECRET_ACCESS_KEY"))
                 /\ Noted("Using GitLab OIDC token for AWS authentication")
        /\ (useVertex(env) /\ ~useBedrock(env) /\ TokenPresent
              /\ ~Present("GOOGLE_APPLICATION_CREDENTIALS")) =>
                 /\ ~Reported(VertexError("GOOGLE_APPLICATION_CREDENTIALS"))
                 /\ Noted("Using GitLab OIDC token for GCP authentication")

\* the lines of a message: its pieces between the "\n" pieces
RECURSIVE SplitLines(_, _)
SplitLines(msg, cur) ==
    IF msg = <<>> THEN <<cur>>
    ELSE IF Head(msg) = "\n" THEN <<cur>> \o SplitLines(Tail(msg), <<>>)
    ELSE SplitLines(Tail(msg), Append(cur, Head(msg)))

BedrockNames == {"AWS_REGION", "AWS_ACCESS_KEY_ID", "AWS_SECRET_ACCESS_KEY"}
VertexNames == {"ANTHROPIC_VERTEX_PROJECT_ID", "CLOUD_ML_REGION"}

\* the problems of the environment, Vertex's variables being looked at when
\* `vertexChecked`
Problems(vertexChecked) ==
    (IF useBedrock(env) /\ useVertex(env) THEN {ConflictError} ELSE {})
    \cup (IF ~useBedrock(env) /\ ~useVertex(env)
             /\ ~Present("ANTHROPIC_API_KEY") /\ ~Present("CLAUDE_CODE_OAUTH_TOKEN")
          THEN {DirectError} ELSE {})
    \cup {BedrockError(k) : k \in {n \in BedrockNames : useBedrock(env) /\ ~Present(n)}}
    \cup {VertexError(k) : k \in {n \in VertexNames : vertexChecked /\ ~Present(n)}}
    \cup (IF Present("GITLAB_CI_MODE") /\ ~Present("CI_PROJECT_DIR")
          THEN {ProjectDirError} ELSE {})

\* the validator fails exactly when there is a problem, and the message is the
\* header followed by one line per problem
ListsExactly(problems) ==
    Validated =>
        /\ vpc = "threw" <=> problems # {}
        /\ vpc = "threw" =>
              LET lines == SplitLines(message, <<>>)
              IN /\ lines[1] = <<ValidationHeader>>
                 /\ Len(lines) = 1 + Cardinality(problems)
                 /\ {lines[i] : i \in 2 .. Len(lines)} = {<<"  - ">> \o q : q \in problems}

\* C8 as stated: every missing variable of every selected provider is listed,
\* also Vertex's when Bedrock is selected too.
C8_ListsEveryProblem == ListsExactly(Problems(useVertex(env)))

\* C8 amended: the validator fails iff there is a problem and lists each on its
\* own line: the conflict, the missing direct-API credential, each missing
\* variable of Bedrock when Bedrock is selected, each missing variable of Vertex
\* when Vertex is selected and Bedrock is not, and the missing CI_PROJECT_DIR.
C8_ListsEveryProblemOfCheckedProvider ==
    ListsExactly(Problems(useVertex(env) /\ ~useBedrock(env)))

\* five problems at once: the conflict, Bedrock's three variables, CI_PROJECT_DIR
C8_Witness ==
    /\ vpc = "threw"
    /\ Len(errors) = 5

DirectMode == ~useBedrock(env) /\ ~useVertex(env)

\* C9 as stated: with no managed provider selected, validation succeeds iff an
\* API key or an OAuth token is set.
C9_DirectCredentialDecides ==
    (Validated /\ DirectMode) =>
        (vpc = "ok" <=> (Present("ANTHROPIC_API_KEY") \/ Present("CLAUDE_CODE_OAUTH_TOKEN")))

\* C9 amended: with no managed provider selected, validation fails when both the
\* API key and the OAuth token are absent, and succeeds when one of them is set
\* (the OAuth token alone is enough) unless GITLAB_CI_MODE is set without
\* CI_PROJECT_DIR.
C9_DirectCredentialOrProjectDir ==
    (Validated /\ DirectMode) =>
        (vpc = "ok" <=>
            /\ Present("ANTHROPIC_API_KEY") \/ Present("CLAUDE_CODE_OAUTH_TOKEN")
            /\ ~(Present("GITLAB_CI_MODE") /\ ~Present("CI_PROJECT_DIR")))

\* validation succeeded on an OAuth token alone
C9_Witness ==
    /\ vpc = "ok"
    /\ DirectMode
    /\ ~Present("ANTHROPIC_API_KEY")
    /\ Present("CLAUDE_CODE_OAUTH_TOKEN")

-----------------------------------------------------------------------------
(* setupClaudeCodeSettings: the settings merger *)

MaxCalls == 2

FORCED == "enableAllProjectMcpServers"

\* A settings document is a function from its top-level keys to their values;
\* {} is the empty function.
EmptyDoc == <<>>

\* a document from its optional fields (<<>>: the key is absent, <<v>>: it is v)
DocOf(flag, model, envObj) ==
    (IF flag # <<>> THEN FORCED :> flag[1] ELSE EmptyDoc)
    @@ (IF model # <<>> THEN "model" :> model[1] ELSE EmptyDoc)
    @@ (IF envObj # <<>> THEN "env" :> envObj[1] ELSE EmptyDoc)

Docs ==
    {DocOf(f, m, e) : f \in {<<>>, <<TRUE>>, <<FALSE>>},
                      m \in {<<>>, <<"x">>, <<"y">>},
                      e \in {<<>>, <<[K |-> "v"]>>, <<[L |-> "w"]>>}}

\* What a call is given. `given` is false for an absent argument. The text is
\* `lead` (white space) followed by `body`: nothing, a JSON object (`doc`), the
\* path of a file, or text that is neither. A file is there or not (`exists`),
\* and its content parses to `doc` or does not (`parses`).
Blank(lead) == [given |-> TRUE, lead |-> lead, body |-> "none", exists |-> FALSE,
                parses |-> FALSE, doc |-> EmptyDoc]
Inline(d) == [given |-> TRUE, lead |-> <<>>, body |-> "json", exists |-> FALSE,
              parses |-> TRUE, doc |-> d]
FilePath(exists, parses, d) == [given |-> TRUE, lead |-> <<>>, body |-> "path",
                                exists |-> exists, parses |-> parses, doc |-> d]

SettingsInputs ==
    {NoInput}
    \cup {Blank(w) : w \in {<<>>, <<" ">>, <<" ", "\n", "\t">>}}
    \cup {Inline(d) : d \in Docs}
    \cup {FilePath(TRUE, TRUE, d) : d \in {DocOf(<<FALSE>>, <<"y">>, <<>>), DocOf(<<>>, <<>>, <<[K |-> "v"]>>)}}
    \cup {FilePath(TRUE, FALSE, EmptyDoc), FilePath(FALSE, FALSE, EmptyDoc)}

\* settingsInput && settingsInput.trim(): there is something besides white space
HasContent(in) == in.given /\ (SkipSpace(in.lead) # <<>> \/ in.body # "none")

\* The input resolved to a document: JSON when it parses, otherwise the content
\* of the file it names; an error when neither works.
ResolveInput(in) ==
    IF in.body = "json" THEN [threw |-> FALSE, doc |-> in.doc]
    ELSE IF in.body = "path" /\ in.exists /\ in.parses THEN [threw |-> FALSE, doc |-> in.doc]
    ELSE [threw |-> TRUE, doc |-> EmptyDoc]

\* { ...settings, ...inputSettings }
ShallowMergeDeepEnv(old, new) ==
    [k \in DOMAIN old \cup DOMAIN new |->
        IF k \in DOMAIN new
        THEN IF k = "env" /\ k \in DOMAIN old THEN new[k] @@ old[k] ELSE new[k]
        ELSE old[k]]

ShallowMerge(old, new) == new @@ old

\* settings.enableAllProjectMcpServers = true
ForceFlagIfAbsent(doc) == doc @@ (FORCED :> TRUE)

ForceFlag(doc) == (FORCED :> TRUE) @@ doc

ExistingDoc == IF settingsFile.present THEN settingsFile.doc ELSE EmptyDoc

SetupClaudeCodeSettings ==
    /\ calls < MaxCalls
    /\ \E in \in SettingsInputs :
          /\ lastInput' = in
          /\ IF HasContent(in) /\ ResolveInput(in).threw
             THEN /\ lastResult' = "threw"
                  /\ callLog' = Append(callLog, [input |-> in, result |-> "threw"])
                  /\ UNCHANGED settingsFile
             ELSE /\ lastResult' = "ok"
                  /\ callLog' = Append(callLog, [input |-> in, result |-> "ok"])
                  /\ settingsFile' =
                        [present |-> TRUE,
                         doc |-> ForceFlag(IF HasContent(in)
                                           THEN ShallowMerge(ExistingDoc, ResolveInput(in).doc)
                                           ELSE ExistingDoc)]
    /\ prevFile' = settingsFile
    /\ calls' = calls + 1
    /\ UNCHANGED <<runVars, valVars, relayVars, cliVars>>

SetInit ==
    /\ settingsFile \in {NoFile} \cup {[present |-> TRUE, doc |-> d] : d \in Docs}
    /\ prevFile = settingsFile
    /\ lastInput = NoInput
    /\ lastResult = "none"
    /\ calls = 0
    /\ callLog = <<>>

InitSettings == RunIdle /\ ValIdle /\ SetInit /\ RelayIdle /\ CliIdle
NextSettings == SetupClaudeCodeSettings
SpecSettings == InitSettings /\ [][NextSettings]_vars

-----------------------------------------------------------------------------
(* Claims about the settings merger *)

PrevDoc == IF prevFile.present THEN prevFile.doc ELSE EmptyDoc

\* C10: after any sequence of successful calls, whatever the input, the written
\* document has enableAllProjectMcpServers = true; a call with absent, empty or
\* white-space input adds no other key and changes no other value.
C10_ForcedFlagAlwaysTrue ==
    lastResult = "ok" =>
        /\ settingsFile.present
        /\ FORCED \in DOMAIN settingsFile.doc
        /\ settingsFile.doc[FORCED] = TRUE
        /\ ~HasContent(lastInput) =>
              /\ DOMAIN settingsFile.doc = DOMAIN PrevDoc \cup {FORCED}
              /\ \A k \in DOMAIN PrevDoc \ {FORCED} : settingsFile.doc[k] = PrevDoc[k]

\* a second successful call whose inline JSON says false, over a file that has
\* other keys
C10_Witness ==
    /\ calls = 2
    /\ lastResult = "ok"
    /\ lastInput.body = "json"
    /\ FORCED \in DOMAIN lastInput.doc
    /\ lastInput.doc[FORCED] = FALSE
    /\ "model" \in DOMAIN PrevDoc

\* two successful calls in sequence, each with an input that resolves to a
\* document
TwoMerges ==
    /\ Len(callLog) = 2
    /\ \A i \in 1 .. 2 : callLog[i].result = "ok" /\ HasContent(callLog[i].input)

FirstDoc == ResolveInput(callLog[1].input).doc
SecondDoc == ResolveInput(callLog[2].input).doc

\* the final document has every key of both inputs; of the keys in `keys`, one
\* of the second input has the second input's value, whole, and one of the first
\* input only has the first input's value
MergedOver(keys) ==
    /\ DOMAIN FirstDoc \cup DOMAIN SecondDoc \subseteq DOMAIN settingsFile.doc
    /\ \A k \in DOMAIN SecondDoc \cap keys : settingsFile.doc[k] = SecondDoc[k]
    /\ \A k \in (DOMAIN FirstDoc \ DOMAIN SecondDoc) \cap keys :
          settingsFile.doc[k] = FirstDoc[k]

\* C11 as stated: for two calls made in sequence, the final document contains
\* every top-level key of both inputs; a key of both has the second input's
\* value, replaced wholesale; a key of the first input only keeps its value.
C11_ShallowMergeSecondWins ==
    TwoMerges => MergedOver(DOMAIN settingsFile.doc)

\* C11 amended: the same, for every key but enableAllProjectMcpServers, whose
\* value is true whatever the inputs say.
C11_ShallowMergeExceptForced ==
    TwoMerges =>
        /\ MergedOver(DOMAIN settingsFile.doc \ {FORCED})
        /\ settingsFile.doc[FORCED] = TRUE

\* two inline documents with different nested env objects, the first with a
\* model the second does not have
C11_Witness ==
    /\ TwoMerges
    /\ "env" \in DOMAIN FirstDoc \cap DOMAIN SecondDoc
    /\ FirstDoc["env"] # SecondDoc["env"]
    /\ "model" \in DOMAIN FirstDoc \ DOMAIN SecondDoc
-----------------------------------------------------------------------------
(* The 'data' handler of the assistant's standard output *)

\* The characters of the modelled output: a letter, a digit, a space, the
\* line feed and the braces of the empty JSON object.
RelayChars == {"a", "1", " ", "\n", "{", "}"}

Texts == UNION {[1 .. n -> RelayChars] : n \in 0 .. MaxText}

\* text.split("\n")
split(text) == SplitLines(text, <<>>)

RECURSIVE Reverse(_)
Reverse(s) == IF s = <<>> THEN <<>> ELSE Append(Reverse(Tail(s)), Head(s))

\* line.trim()
trim(line) == Reverse(SkipSpace(Reverse(SkipSpace(line))))

\* JSON.stringify(JSON.parse(line), null, 2). Over RelayChars the JSON texts
\* are the numbers 1, 11, ... and the empty object, with white space around
\* them and, for the object, between its braces; a number is written back as
\* its digits and the empty object as {}.
JsonPretty(line) ==
    LET t == trim(line) IN
    IF t # <<>> /\ \A i \in 1 .. Len(t) : t[i] = "1"
    THEN [ok |-> TRUE, text |-> t]
    ELSE IF /\ Len(t) >= 2
            /\ Head(t) = "{"
            /\ t[Len(t)] = "}"
            /\ \A i \in 2 .. Len(t) - 1 : t[i] = " "
    THEN [ok |-> TRUE, text |-> <<"{", "}">>]
    ELSE [ok |-> FALSE, text |-> <<>>]

endsWith(text, c) == text # <<>> /\ text[Len(text)] = c

\* what the forEach callback writes for lines[index] (index from 1 here)
WriteLine(text, lines, index) ==
    LET line == lines[index]
        body == IF JsonPretty(line).ok THEN JsonPretty(line).text ELSE line
    IN  IF trim(line) = <<>> THEN <<>>
        ELSE body \o (IF index < Len(lines) \/ endsWith(text, "\n")
                      THEN <<"\n">> ELSE <<>>)

RECURSIVE WriteLines(_, _, _)
WriteLines(text, lines, index) ==
    IF index > Len(lines) THEN <<>>
    ELSE WriteLine(text, lines, index) \o WriteLines(text, lines, index + 1)

\* everything the handler writes to process.stdout for one chunk
OnData(text) == WriteLines(text, split(text), 1)

\* The stream hands over the next chunk, of any length, and the handler relays
\* it.
RelayData ==
    /\ pending # <<>>
    /\ \E n \in 1 .. Len(pending) :
          /\ relayed' = relayed \o OnData(SubSeq(pending, 1, n))
          /\ pending' = SubSeq(pending, n + 1, Len(pending))
    /\ UNCHANGED <<source, runVars, valVars, setVars, cliVars>>

RelayInit ==
    /\ source \in Texts
    /\ pending = source
    /\ relayed = <<>>

InitRelay == RunIdle /\ ValIdle /\ SetIdle /\ RelayInit /\ CliIdle
NextRelay == RelayData
SpecRelay == InitRelay /\ [][NextRelay]_vars

-----------------------------------------------------------------------------
(* Claims about the relay *)

NonBlank(lines) == {i \in 1 .. Len(lines) : trim(lines[i]) # <<>>}

\* the non-blank lines of a text that a line feed ends
Terminated(text) == {i \in NonBlank(split(text)) : i < Len(split(text))}

LineFeeds(text) == {i \in 1 .. Len(text) : text[i] = "\n"}

\* C12: however the output is cut into chunks, the relayed output keeps the
\* source's line boundaries: no two source lines are joined into one relayed
\* line, every line feed that ends a non-blank source line is relayed, and a
\* last source line without a line feed is relayed without one.
C12_LineBoundariesKept ==
    pending = <<>> =>
        /\ Cardinality(NonBlank(split(relayed))) = Cardinality(NonBlank(split(source)))
        /\ Cardinality(LineFeeds(relayed)) >= Cardinality(Terminated(source))
        /\ (Len(split(source)) \in NonBlank(split(source))) => ~endsWith(relayed, "\n")
-----------------------------------------------------------------------------
(* main (cli.ts) up to the spawn of the assistant *)

\* The name of an environment variable is the sequence of its pieces, cut after
\* the prefixes INPUT_ and CLAUDE_; a name read from a CLAUDE_ENV block is the
\* sequence of its characters. Values are sequences of characters.
CLAUDE_ENV == <<"CLAUDE_", "ENV">>
CLAUDE_MAX_TURNS == <<"CLAUDE_", "MAX_TURNS">>
CLAUDE_TIMEOUT_MINUTES == <<"CLAUDE_", "TIMEOUT_MINUTES">>
GITLAB_CI_MODE == <<"GITLAB_CI_MODE">>
GITLAB_CI_INPUTS == <<"GITLAB_CI_INPUTS">>

\* process.env.NAME || ""
OrEmpty(e, name) == IF name \in DOMAIN e THEN e[name] ELSE <<>>

\* process.env.NAME || dflt
OrDefault(e, name, dflt) == IF Truthy(OrEmpty(e, name)) THEN e[name] ELSE dflt

\* Object.entries(mapGitLabEnvironment()), for the variables the model follows
mapGitLabEnvironment(e) ==
    << <<CLAUDE_MAX_TURNS, OrEmpty(e, CLAUDE_MAX_TURNS)>>,
       <<CLAUDE_TIMEOUT_MINUTES, OrDefault(e, CLAUDE_TIMEOUT_MINUTES, <<"1", "0">>)>>,
       <<CLAUDE_ENV, OrEmpty(e, CLAUDE_ENV)>> >>

\* key.replace('CLAUDE_', ''): the first occurrence is removed
RECURSIVE replace(_)
replace(key) ==
    IF key = <<>> THEN <<>>
    ELSE IF Head(key) = "CLAUDE_" THEN Tail(key)
    ELSE <<Head(key)>> \o replace(Tail(key))

\* `INPUT_${key.replace('CLAUDE_', '')}`
InputName(key) == <<"INPUT_">> \o replace(key)

\* Object.entries(gitlabEnv).forEach(...), from entry i on
RECURSIVE SetInputs(_, _, _)
SetInputs(e, entries, i) ==
    IF i > Len(entries) THEN e
    ELSE SetInputs(IF Truthy(entries[i][2])
                   THEN (InputName(entries[i][1]) :> entries[i][2]) @@ e
                   ELSE e,
                   entries, i + 1)

\* trimmedLine.indexOf(":"), counted from 1; 0 when there is none
RECURSIVE indexOf(_, _, _)
indexOf(s, c, i) ==
    IF i > Len(s) THEN 0
    ELSE IF s[i] = c THEN i
    ELSE indexOf(s, c, i + 1)

\* one turn of the loop over the lines of the block
ParseLine(customEnv, line) ==
    LET trimmedLine == trim(line)
        colonIndex == indexOf(trimmedLine, ":", 1)
        key == trim(SubSeq(trimmedLine, 1, colonIndex - 1))
        value == trim(SubSeq(trimmedLine, colonIndex + 1, Len(trimmedLine)))
    IN  IF trimmedLine = <<>> \/ Head(trimmedLine) = "#" THEN customEnv
        ELSE IF colonIndex = 0 THEN customEnv
        ELSE IF Truthy(key) THEN (key :> value) @@ customEnv
        ELSE customEnv

RECURSIVE ParseLines(_, _, _)
ParseLines(customEnv, lines, i) ==
    IF i > Len(lines) THEN customEnv
    ELSE ParseLines(ParseLine(customEnv, lines[i]), lines, i + 1)

parseCustomEnvVars(claudeEnv) ==
    IF ~Truthy(claudeEnv) \/ trim(claudeEnv) = <<>> THEN <<>>
    ELSE ParseLines(<<>>, split(claudeEnv), 1)

\* the env of the prepared configuration
ConfigEnv(o, e) ==
    (IF Truthy(OrEmpty(e, GITLAB_CI_MODE))
     THEN GITLAB_CI_INPUTS :> e[GITLAB_CI_MODE] ELSE <<>>)
    @@ parseCustomEnvVars(o.claudeEnv)

\* the options main hands to runClaudeGitLab
MainOptions(e) ==
    [NoOptions EXCEPT !.maxTurns = OrEmpty(e, <<"INPUT_", "MAX_TURNS">>),
                      !.claudeEnv = OrEmpty(e, <<"INPUT_", "CLAUDE_", "ENV">>),
                      !.timeoutMinutes = OrEmpty(e, <<"INPUT_", "TIMEOUT_MINUTES">>)]

CliRest == <<runVars, valVars, setVars, relayVars>>

\* mapGitLabEnvironment and the INPUT_ variables set from it
MainMapEnvironment ==
    /\ mpc = "start"
    /\ processEnv' = SetInputs(processEnv, mapGitLabEnvironment(processEnv), 1)
    /\ mpc' = "validate"
    /\ UNCHANGED <<spawnEnv, CliRest>>

\* a step of main that returns or throws: validateEnvironmentVariablesGitLab,
\* setupClaudeCodeSettings, preparePrompt
MainStep(from, to) ==
    /\ mpc = from
    /\ \E ok \in BOOLEAN : mpc' = IF ok THEN to ELSE "caught"
    /\ UNCHANGED <<processEnv, spawnEnv, CliRest>>

MainValidate == MainStep("validate", "settings")
MainSetupSettings == MainStep("settings", "prompt")
MainPreparePrompt == MainStep("prompt", "run")

\* runClaudeGitLab up to the spawn of the assistant: prepareRunConfig, the named
\* pipe, then spawn with { ...process.env, ...config.env }
MainRunClaude ==
    /\ mpc = "run"
    /\ LET o == MainOptions(processEnv) IN
       \E pipeOk \in BOOLEAN :
          IF prepareRunConfig(o).threw \/ ~pipeOk
          THEN mpc' = "caught" /\ UNCHANGED spawnEnv
          ELSE /\ spawnEnv' = ConfigEnv(o, processEnv) @@ processEnv
               /\ mpc' = "spawned"
    /\ UNCHANGED <<processEnv, CliRest>>

\* main's catch: setFailed ends the process
MainCaught ==
    /\ mpc = "caught"
    /\ mpc' = "exited"
    /\ UNCHANGED <<processEnv, spawnEnv, CliRest>>

\* The characters of a CLAUDE_ENV block.
BlockChars == {"A", "1", ":", " ", "\n", "#"}
Blocks == UNION {[1 .. n -> BlockChars] : n \in 0 .. MaxBlock}

\* a variable that is set to v, or not set
Setting(name, v) == {<<>>, name :> v}

CliInit ==
    /\ \E block \in Blocks,
          inherited \in Setting(<<"A">>, <<"0">>),
          turns \in Setting(CLAUDE_MAX_TURNS, <<"3">>) \cup Setting(CLAUDE_MAX_TURNS, <<"0">>),
          preset \in Setting(<<"INPUT_", "CLAUDE_", "ENV">>, <<"A", ":", "1">>),
          mode \in Setting(GITLAB_CI_MODE, <<"1">>) :
          processEnv = (CLAUDE_ENV :> block) @@ inherited @@ turns @@ preset @@ mode
    /\ mpc = "start"
    /\ spawnEnv = <<>>

InitCli == RunIdle /\ ValIdle /\ SetIdle /\ RelayIdle /\ CliInit
NextCli ==
    \/ MainMapEnvironment
    \/ MainValidate
    \/ MainSetupSettings
    \/ MainPreparePrompt
    \/ MainRunClaude
    \/ MainCaught
SpecCli == InitCli /\ [][NextCli]_vars

-----------------------------------------------------------------------------
(* Claims about main *)

\* C14: when main runs with CLAUDE_ENV set to a block of KEY: VALUE lines,
\* every well-formed pair of the block is in the environment of the spawned
\* assistant, with the block's value even when a variable of that name was
\* inherited.
C14_ClaudeEnvReachesAssistant ==
    mpc = "spawned" =>
        LET pairs == parseCustomEnvVars(processEnv[CLAUDE_ENV]) IN
        \A k \in DOMAIN pairs : k \in DOMAIN spawnEnv /\ spawnEnv[k] = pairs[k]
-----------------------------------------------------------------------------
(* prepareRunConfig on its own *)

\* The characters of a maxTurns or timeoutMinutes option.
OptionChars == {"3", "0", "-", "a", "."}
OptionTexts(len) == UNION {[1 .. n -> OptionChars] : n \in 0 .. len}

ConfigInit ==
    /\ \E mt \in OptionTexts(MaxOption), tm \in OptionTexts(MaxOption - 1) :
          options = [NoOptions EXCEPT !.maxTurns = mt, !.timeoutMinutes = tm]
    /\ envTimeout = <<>>
    /\ termHonoured = FALSE
    /\ pc = "start"
    /\ claudeArgs = <<>>
    /\ thrown = <<>>
    /\ pipeExists = FALSE
    /\ pipeCreated = FALSE
    /\ spawned = {}
    /\ claudeState = "none"
    /\ killCalls = [c \in Children |-> <<>>]
    /\ pipeStream = "none"
    /\ errored = {}
    /\ timeoutMs = 0
    /\ timeoutId = "unset"
    /\ killTimer = "unset"
    /\ resolved = FALSE
    /\ promise = [settled |-> FALSE, value |-> 0]
    /\ resolveCalls = 0
    /\ eventLog = <<>>
    /\ output = 0
    /\ unlinkAttempted = FALSE
    /\ resultWritten = FALSE
    /\ warnings = 0
    /\ outputs = <<>>
    /\ processExit = NotExited

InitConfig == ConfigInit /\ ValIdle /\ SetIdle /\ RelayIdle /\ CliIdle
NextConfig == PrepareRunConfig
SpecConfig == InitConfig /\ [][NextConfig]_vars

-----------------------------------------------------------------------------
(* Claims about prepareRunConfig *)

\* the argument that follows `flag` is `value`
ArgAfter(flag, value) ==
    \E i \in 1 .. Len(claudeArgs) - 1 : claudeArgs[i] = flag /\ claudeArgs[i + 1] = value

\* C15: when prepareRunConfig returns normally, maxTurns, if present, is a
\* positive integer and is the value after --max-turns, and timeoutMinutes, if
\* present, is a positive integer; a present value that is not a positive
\* integer makes prepareRunConfig throw.
C15_LimitsArePositiveIntegers ==
    /\ pc = "mkfifo" =>
          /\ Truthy(options.maxTurns) =>
                /\ PositiveNumber(options.maxTurns)
                /\ ArgAfter(<<"--max-turns">>, options.maxTurns)
          /\ Truthy(options.timeoutMinutes) => PositiveNumber(options.timeoutMinutes)
    /\ (pc # "start" /\ (InvalidLimit(options.maxTurns) \/ InvalidLimit(options.timeoutMinutes)))
          => pc = "caught"
=============================================================================
